---------------------------- MODULE Spec2Model ----------------------------
(***************************************************************************)
(* MappingRadEnv (gym_flock/envs/spatial/mapping_rad.py): robots patrol a  *)
(* lattice of stationary targets.                                          *)
(*                                                                         *)
(* Conventions of the model                                                *)
(*  - agents are indexed as in the source: robots 0 .. n_robots-1, targets *)
(*    n_robots .. n_agents-1; numpy arrays are functions on 0 .. n-1.      *)
(*  - positions are held in fixed point, one unit = 0.5 length units of    *)
(*    the source (lattice spacing 5.5 = 11 units, radius 6.0 = 12 units).  *)
(*  - a distance matrix r = np.linalg.norm(...) is held by its squares, a  *)
(*    comparison r > rad is made as r^2 > rad^2.                           *)
(*  - the displacement of a sub-step, u * ddt, is rounded to the unit.     *)
(*  - Python's None is the empty tuple.                                    *)
(*  - make_map and vrp_solver are outside the file: the target list is any *)
(*    part of a two-row lattice strip in either scan order, a route plan   *)
(*    any short list of distinct targets.                                  *)
(***************************************************************************)
EXTENDS Integers, Sequences, FiniteSets, TLC

VARIABLES
    n_targets,          \* self.n_targets
    x,                  \* self.x[:, 0:2], agent index -> <<px, py>>
    visited,            \* self.visited, agent index -> 0 / 1
    step_counter,       \* self.step_counter
    motion_edges,       \* self.motion_edges, sequence of <<sender, receiver>> (agent indices)
    n_motion_edges,     \* self.n_motion_edges
    mov_edges,          \* self.mov_edges, sequence of <<robot, receiver>> (agent indices), or None
    cached_solution,    \* self.cached_solution: robot -> sequence of agent indices, or None
    graph_previous,     \* self.graph_previous, or None
    graph_cost,         \* self.graph_cost, or None
    ret,                \* what the last call returned or raised, with the locals it computed
    solver_calls,       \* number of solve_vrp calls since the last reset (or construction)
    initially_active,   \* the targets the last reset (or construction) drew as unvisited
    time_matrix,        \* construct_time_matrix: local time_matrix
    prev,               \* construct_time_matrix: local prev
    changed_last_iter,  \* construct_time_matrix: local changed_last_iter
    pc                  \* construct_time_matrix: "idle", "loop" or "done"

vars == <<n_targets, x, visited, step_counter, motion_edges, n_motion_edges, mov_edges, cached_solution,
          graph_previous, graph_cost, ret, solver_calls, initially_active,
          time_matrix, prev, changed_last_iter, pc>>

None == <<>>

---------------------------------------------------------------------------
(* Bounds of the model *)

\* width of the two-row lattice strip the shortest-path planner is checked on
LatW == 4
\* width of the two-row lattice strip the environment is run on
EnvLatW == 3
\* number of robots (the constructor's n_robots)
n_robots == 1
\* self.episode_length of the model (the source sets EPISODE_LENGTH = 50)
episode_length == 3
\* step() is followed while step_counter is below this value
MaxStepCounter == 4
\* reset moves a robot off its landmark by ResetJitter along an axis (inside the
\* sensor radius) or along the diagonal (outside it)
ResetJitter == 3
\* longest route the route solver returns for one robot
MaxRoute == 2
\* the route solver's waypoints are among the first RouteTargets targets
RouteTargets == 2
\* the k-nearest builder is called with k up to MaxK on KTargets targets placed on
\* the points with coordinates in -KSpan .. KSpan around the robots
MaxK == 2
KTargets == 3
KSpan == 1

---------------------------------------------------------------------------
(* Program constants, in the model's units *)

N_ACTIONS == 4
\* np.Inf: larger than every path length of the model
Inf == 1000000
\* lattice spacing |lattice_vectors[k]| = 5.5
LatticeStep == 11
motion_radius == 12
sensor_radius == 4
comm_radius == 12
\* frac_active_targets = FRAC_ACTIVE = 0.75 = 3 / 4
FRAC_ACTIVE_NUM == 3
FRAC_ACTIVE_DEN == 4
\* padding: self.max_edges = self.n_agents * MAX_EDGES
MAX_EDGES == 5
\* self.dt = 2.0, self.n_steps = 5, self.ddt = dt / n_steps
dt == 2
n_steps == 5
\* self.a_max = 3.0, self.action_gain = 1.0
a_max == 6
action_gain == 1

---------------------------------------------------------------------------
(* numpy helpers *)

Range(n) == 0 .. (n - 1)

Min(a, b) == IF a < b THEN a ELSE b

\* a + b on floats with np.Inf
AddInf(a, b) == IF a = Inf \/ b = Inf THEN Inf ELSE a + b

\* np.nonzero of an n x m matrix: the index pairs of its nonzero entries, row-major
nonzero(r, n, m) ==
    SelectSeq([k \in 1 .. (n * m) |-> <<(k - 1) \div m, (k - 1) % m>>],
              LAMBDA e : r[e[1]][e[2]] # 0)

\* the elements of a sequence
SeqRange(s) == {s[k] : k \in 1 .. Len(s)}

\* F applied to the value of e, evaluated once
With(e, F(_)) == CHOOSE out \in {F(v) : v \in {e}} : TRUE

---------------------------------------------------------------------------
(* Geometry / graph builder *)

\* _get_pos_diff: diff[i][j] = sender_loc[i] - receiver_loc[j]
\* (receiver_loc defaults to sender_loc)
_get_pos_diff(sender_loc, receiver_loc) ==
    LET Diff(send) ==
            LET Against(recv) ==
                    [i \in DOMAIN send |->
                        [j \in DOMAIN recv |->
                            <<send[i][1] - recv[j][1], send[i][2] - recv[j][2]>>]]
            IN  With(IF receiver_loc # None THEN receiver_loc ELSE send, Against)
    IN  With(sender_loc, Diff)

\* np.linalg.norm(diff, axis=2), squared
Norm2(diff) ==
    LET Squares(d) ==
            [i \in DOMAIN d |->
                [j \in DOMAIN d[i] |-> d[i][j][1] * d[i][j][1] + d[i][j][2] * d[i][j][2]]]
    IN  With(diff, Squares)

\* r[r > rad] = 0
ZeroBeyond(r, rad) ==
    [i \in DOMAIN r |-> [j \in DOMAIN r[i] |-> IF r[i][j] > rad * rad THEN 0 ELSE r[i][j]]]

\* np.fill_diagonal(r, v)
fill_diagonal(r, v) ==
    [i \in DOMAIN r |-> [j \in DOMAIN r[i] |-> IF i = j THEN v ELSE r[i][j]]]

\* _get_graph_edges: the edges (senders, receivers) as a row-major sequence of pairs
\* (the second result, r[edges], is the distance of each returned edge)
_get_graph_edges(rad, pos1, pos2, self_loops) ==
    LET n  == Cardinality(DOMAIN pos1)
        m  == IF pos2 # None THEN Cardinality(DOMAIN pos2) ELSE n
        Threshold(r0) == ZeroBeyond(r0, rad)
        Diagonal(r1)  == IF ~self_loops /\ pos2 = None THEN fill_diagonal(r1, 0) ELSE r1
        Edges(r2)     == nonzero(r2, n, m)
    IN  With(With(With(Norm2(_get_pos_diff(pos1, pos2)), Threshold), Diagonal), Edges)


\* np.argmin of a row: the lowest index holding the minimum
argmin(row) ==
    CHOOSE j \in DOMAIN row :
        \A l \in DOMAIN row : row[j] < row[l] \/ (row[j] = row[l] /\ j <= l)

\* np.argpartition(row, kth)[0:kth + 1] as a set of indices: numpy promises only that
\* no entry left out is smaller than an entry kept, so equal distances leave the
\* choice open; every choice is a result
argpartition(row, kth) ==
    {S \in SUBSET (DOMAIN row) :
        /\ Cardinality(S) = kth + 1
        /\ \A a \in S : \A b \in (DOMAIN row) \ S : row[a] <= row[b]}

\* _get_k_edges: the set of results (senders, receivers) it can return, each a
\* row-major sequence of pairs; empty when k exceeds the receivers (numpy raises)
_get_k_edges(k, pos1, pos2, self_loops, allow_nearest) ==
    LET n  == Cardinality(DOMAIN pos1)
        m  == IF pos2 # None THEN Cardinality(DOMAIN pos2) ELSE n
        Diagonal(r0) == IF ~self_loops /\ pos2 = None THEN fill_diagonal(r0, Inf) ELSE r0
        \* the masks a row can end with: lines 383-390
        RowMasks(row) ==
            IF allow_nearest
            THEN argpartition(row, k - 1)
            ELSE {S \ {argmin(row)} : S \in argpartition(row, k)}
        Edges(mk) ==
            nonzero([i \in Range(n) |-> [j \in Range(m) |-> IF j \in mk[i] THEN 1 ELSE 0]], n, m)
        Results(rm) ==
            {With(mk, Edges) :
                mk \in {f \in [Range(n) -> UNION {rm[i] : i \in Range(n)}] :
                            \A i \in Range(n) : f[i] \in rm[i]}}
        AllMasks(r) == With([i \in Range(n) |-> With(r[i], RowMasks)], Results)
    IN  With(With(Norm2(_get_pos_diff(pos1, pos2)), Diagonal), AllMasks)

---------------------------------------------------------------------------
(* Target layout: make_map.generate_lattice and make_map.reject_collisions *)

\* generate_lattice: the points of a w x h square lattice, listed row by row,
\* either every row left to right ("rows") or alternating direction ("snake")
generate_lattice(w, h, scan) ==
    [k \in 1 .. (w * h) |->
        LET cy == (k - 1) \div w
            c  == (k - 1) % w
            cx == IF scan = "snake" /\ cy % 2 = 1 THEN w - 1 - c ELSE c
        IN  <<LatticeStep * cx, LatticeStep * cy>>]

\* reject_collisions: the listed points outside the obstacles, in the same order
reject_collisions(points, obstacles) ==
    SelectSeq(points, LAMBDA p : p \notin obstacles)


---------------------------------------------------------------------------
(* Shortest-path planner: construct_time_matrix *)

\* one iteration of the for loop: relax the edge (sender, receiver) for every source row
\* (each array is evaluated once, as a value, before it is used)
RelaxEdge(st, e, edge_time, n) ==
    LET sender   == e[1]
        receiver == e[2]
        Out(tm, pv, ch) ==
            LET new_cost == [i \in Range(n) |->
                                Min(AddInf(tm[i][sender], edge_time), tm[i][receiver])]
                new_prev == [i \in Range(n) |->
                                IF AddInf(tm[i][sender], edge_time) < tm[i][receiver]
                                THEN sender ELSE pv[i][receiver]]
            IN  [time_matrix |-> [i \in Range(n) |-> [tm[i] EXCEPT ![receiver] = new_cost[i]]],
                 prev |-> [i \in Range(n) |-> [pv[i] EXCEPT ![receiver] = new_prev[i]]],
                 changed_last_iter |->
                     ch \/ (new_cost # [i \in Range(n) |-> tm[i][receiver]])]
    IN  CHOOSE out \in {Out(v.time_matrix, v.prev, v.changed_last_iter) : v \in {st}} : TRUE

\* the for loop over zip(edges[0], edges[1])
RECURSIVE RelaxAll(_, _, _, _)
RelaxAll(st, edges, edge_time, n) ==
    IF edges = <<>> THEN st
    ELSE RelaxAll(RelaxEdge(st, Head(edges), edge_time, n), Tail(edges), edge_time, n)

\* the body of the while loop: one full pass
RelaxPass(st, edges, edge_time, n) ==
    RelaxAll([st EXCEPT !.changed_last_iter = FALSE], edges, edge_time, n)

\* np.sum(time_matrix) == np.Inf: some entry is infinite (entries are never negative)
SumIsInf(tm, n) == \E i \in Range(n) : \E j \in Range(n) : tm[i][j] = Inf

\* a while condition without the changed_last_iter flag
LoopCondNoChange(st, n) == SumIsInf(st.time_matrix, n)

\* the while condition, line 470
LoopCond(st, n) == st.changed_last_iter /\ SumIsInf(st.time_matrix, n)

\* edges = (motion_edges[0] - n_robots, motion_edges[1] - n_robots)
TargetEdges(medges) ==
    [k \in 1 .. Len(medges) |-> <<medges[k][1] - n_robots, medges[k][2] - n_robots>>]

\* the state before the while loop
TimeMatrixStart(n) ==
    [time_matrix |-> [i \in Range(n) |-> [j \in Range(n) |-> IF i = j THEN 0 ELSE Inf]],
     prev |-> [i \in Range(n) |-> [j \in Range(n) |-> IF i = j THEN i ELSE 0]],
     changed_last_iter |-> TRUE]

RECURSIVE TimeMatrixLoop(_, _, _, _)
TimeMatrixLoop(st, edges, edge_time, n) ==
    LET While(v) == IF LoopCond(v, n)
                    THEN TimeMatrixLoop(RelaxPass(v, edges, edge_time, n), edges, edge_time, n)
                    ELSE v
    IN  CHOOSE out \in {While(v) : v \in {st}} : TRUE

\* construct_time_matrix(edge_time): the record of (time_matrix, prev)
construct_time_matrix(medges, n, edge_time) ==
    TimeMatrixLoop(TimeMatrixStart(n), TargetEdges(medges), edge_time, n)


\* the projection with the two indices of the predecessor matrix exchanged
NextHopSwapped(gp, next_loc, curr_loc) ==
    gp[curr_loc - n_robots][next_loc - n_robots] + n_robots

\* controller, line 567: the projection of the desired target next_loc through the
\* predecessor matrix, for a robot whose nearest target is curr_loc (agent indices)
NextHop(gp, next_loc, curr_loc) ==
    gp[next_loc - n_robots][curr_loc - n_robots] + n_robots

---------------------------------------------------------------------------
(* Construction: __init__ and _initialize_graph *)

n_agents == n_targets + n_robots

\* self.x[:self.n_robots, 0:2] and self.x[self.n_robots:, 0:2]
RobotPos(xx) == [i \in Range(n_robots) |-> xx[i]]
TargetPos(xx, nt) == [t \in Range(nt) |-> xx[t + n_robots]]

\* np.sum(self.visited[self.n_robots:])
VisitedSum(v, nt) == Cardinality({t \in Range(nt) : v[t + n_robots] = 1})

\* int(self.n_targets * self.frac_active_targets)
NumActive(nt) == (nt * FRAC_ACTIVE_NUM) \div FRAC_ACTIVE_DEN

\* np_random.choice(n, size=(k,), replace=False), as the set of indices drawn
ChoiceSets(n, k) == {S \in SUBSET Range(n) : Cardinality(S) = k}

\* the value of `ret` when nothing was called yet. `ret` records the last call: which
\* (op), what it raised, and what it returned or computed on the way (for controller:
\* the plan its loop started from, and whether it called the solver)
NoRet ==
    [op |-> "init", raised |-> "", reward |-> 0, done |-> FALSE, step |-> 0,
     curr_loc |-> None, greedy_loc |-> None, desired |-> None, hop |-> None, action |-> None,
     plan |-> None, solved |-> FALSE, k |-> 0, edges |-> None]

\* _initialize_graph, then the rest of __init__: `targets` is the list the lattice
\* generator and the obstacle rejection produced, `active` the targets drawn unvisited.
\* _initialize_graph sets n_motion_edges = len(motion_edges[0]); line 132 of __init__
\* then sets it to 0.
Construct(targets, active) ==
    LET nt == Len(targets)
        xx == [a \in Range(nt + n_robots) |->
                  IF a < n_robots THEN <<0, 0>> ELSE targets[a - n_robots + 1]]
        me == _get_graph_edges(motion_radius, TargetPos(xx, nt), None, TRUE)
    IN  /\ n_targets = nt
        /\ x = xx
        /\ visited = [a \in Range(nt + n_robots) |->
                          IF a >= n_robots /\ (a - n_robots) \in active THEN 0 ELSE 1]
        /\ initially_active = active
        /\ motion_edges = [k \in 1 .. Len(me) |-> <<me[k][1] + n_robots, me[k][2] + n_robots>>]
        /\ n_motion_edges = 0
        /\ mov_edges = None
        /\ cached_solution = None
        /\ graph_previous = None
        /\ graph_cost = None
        /\ step_counter = 0
        /\ solver_calls = 0
        /\ ret = NoRet

\* the layouts of a two-row lattice strip of width w: any scan order, any obstacles
Layouts(w) ==
    {reject_collisions(generate_lattice(w, 2, scan), obstacles) :
        scan \in {"rows", "snake"},
        obstacles \in SUBSET SeqRange(generate_lattice(w, 2, "rows"))}

---------------------------------------------------------------------------
(* construct_time_matrix, one pass of its while loop at a time *)

TimeMatrixIdle ==
    /\ time_matrix = None
    /\ prev = None
    /\ changed_last_iter = FALSE
    /\ pc = "idle"

LoopState == [time_matrix |-> time_matrix, prev |-> prev, changed_last_iter |-> changed_last_iter]

EnvUnchanged ==
    UNCHANGED <<n_targets, x, visited, step_counter, motion_edges, n_motion_edges, mov_edges,
                cached_solution,
                graph_previous, graph_cost, ret, solver_calls, initially_active>>

\* lines 463-469: the matrices before the loop
TimeMatrixEnter ==
    /\ pc = "idle"
    /\ time_matrix' = TimeMatrixStart(n_targets).time_matrix
    /\ prev' = TimeMatrixStart(n_targets).prev
    /\ changed_last_iter' = TimeMatrixStart(n_targets).changed_last_iter
    /\ pc' = "loop"
    /\ EnvUnchanged

\* lines 470-479: the loop condition holds, one full pass over the edges
TimeMatrixPass ==
    /\ pc = "loop"
    /\ LoopCond(LoopState, n_targets)
    /\ LET st == RelaxPass(LoopState, TargetEdges(motion_edges), 1, n_targets)
       IN  /\ time_matrix' = st.time_matrix
           /\ prev' = st.prev
           /\ changed_last_iter' = st.changed_last_iter
    /\ pc' = "loop"
    /\ EnvUnchanged

\* line 481: the loop condition fails, return time_matrix, prev
TimeMatrixReturn ==
    /\ pc = "loop"
    /\ ~LoopCond(LoopState, n_targets)
    /\ pc' = "done"
    /\ UNCHANGED <<time_matrix, prev, changed_last_iter>>
    /\ EnvUnchanged

InitTM ==
    /\ \E targets \in Layouts(LatW) \ {<<>>} : Construct(targets, {})
    /\ TimeMatrixIdle

NextTM == TimeMatrixEnter \/ TimeMatrixPass \/ TimeMatrixReturn

SpecTM == InitTM /\ [][NextTM]_vars

\* the loop is one sequential computation: it always takes its next step
SpecTMFair == SpecTM /\ WF_vars(NextTM)

---------------------------------------------------------------------------
(* Dynamics integrator and observation assembler *)

Clip(v, lo, hi) == IF v < lo THEN lo ELSE IF v > hi THEN hi ELSE v

\* a / b rounded to the nearest unit of the fixed-point positions (b > 0)
RoundDiv(a, b) == IF a >= 0 THEN (2 * a + b) \div (2 * b) ELSE 0 - ((b - 2 * a) \div (2 * b))

\* step, lines 155-161 (velocity_control): one sub-step towards the chosen receivers
SubStep(xx, u_ind) ==
    [a \in DOMAIN xx |->
        IF a < n_robots
        THEN LET diff == <<xx[a][1] - xx[u_ind[a]][1], xx[a][2] - xx[u_ind[a]][2]>>
                 u    == <<action_gain * Clip(0 - diff[1], 0 - a_max, a_max),
                           action_gain * Clip(0 - diff[2], 0 - a_max, a_max)>>
             IN  <<xx[a][1] + RoundDiv(u[1] * dt, n_steps), xx[a][2] + RoundDiv(u[2] * dt, n_steps)>>
        ELSE xx[a]]

\* for _ in range(self.n_steps)
RECURSIVE Integrate(_, _, _)
Integrate(xx, u_ind, k) ==
    IF k = 0 THEN xx
    ELSE CHOOSE out \in {Integrate(SubStep(v, u_ind), u_ind, k - 1) : v \in {xx}} : TRUE

\* (edges[0], edges[1] + self.n_robots)
ShiftReceivers(edges) == [k \in 1 .. Len(edges) |-> <<edges[k][1], edges[k][2] + n_robots>>]

\* step, line 152: np.reshape(self.mov_edges[1], (n_robots, n_actions))[robots_index, u_ind]
ActionReceiver(me, i, a) == me[i * N_ACTIONS + a + 1][2]

\* a done flag that forgets the visited targets
DoneFlagOnlyCounter(sc, v, nt) == sc = episode_length

\* a done flag that compares the step counter as it was before the increment
DoneFlagBeforeIncrement(sc, v, nt) == sc - 1 = episode_length \/ VisitedSum(v, nt) = nt

\* line 233, with the step counter already incremented
DoneFlag(sc, v, nt) == sc = episode_length \/ VisitedSum(v, nt) = nt

\* the reward of the commented-out line 235: visited targets minus all targets
RewardOfTotal(v, nt, old_sum) == VisitedSum(v, nt) - nt

\* line 236
Reward(v, nt, old_sum) == VisitedSum(v, nt) - old_sum

\* flags rewritten from the sensor edges alone: a target out of range is cleared
MarkOnlySensed(v, sensor_edges) ==
    [a \in DOMAIN v |->
        IF a < n_robots THEN v[a]
        ELSE IF \E k \in 1 .. Len(sensor_edges) : sensor_edges[k][2] + n_robots = a THEN 1 ELSE 0]

\* line 207: self.visited[sensor_edges[1] + self.n_robots] = 1
MarkVisited(v, sensor_edges) ==
    [a \in DOMAIN v |->
        IF \E k \in 1 .. Len(sensor_edges) : sensor_edges[k][2] + n_robots = a THEN 1 ELSE v[a]]

\* _get_obs_reward on positions xx, flags v and step counter sc, when _get_k_edges
\* returned k_edges: what it leaves in the fields, and what it returns or raises
ObsReward(xx, v, sc, me, nme, nt, k_edges) ==
    LET robots  == RobotPos(xx)
        targets == TargetPos(xx, nt)
        Rest(action_edges, plan_edges, comm_edges, sensor_edges) ==
            LET old_sum   == VisitedSum(v, nt)
                n_senders == Len(plan_edges) + Len(action_edges) + Len(comm_edges)
                Out(v2) ==
                    IF n_senders + nme > (nt + n_robots) * MAX_EDGES
                    THEN [raised |-> "AssertionError", visited |-> v2,
                          mov_edges |-> action_edges,
                          step_counter |-> sc, reward |-> 0, done |-> FALSE, step |-> 0]
                    ELSE [raised |-> "", visited |-> v2, mov_edges |-> action_edges,
                          step_counter |-> sc + 1,
                          reward |-> Reward(v2, nt, old_sum),
                          done |-> DoneFlag(sc + 1, v2, nt),
                          step |-> sc]
            IN  IF Len(action_edges) # N_ACTIONS * n_robots
                THEN [raised |-> "AssertionError", visited |-> v, mov_edges |-> me,
                      step_counter |-> sc, reward |-> 0, done |-> FALSE, step |-> 0]
                ELSE CHOOSE out \in {Out(w) : w \in {MarkVisited(v, sensor_edges)}} : TRUE
    IN  CHOOSE out \in
            {Rest(a, p, c, s) :
                a \in {ShiftReceivers(k_edges)},
                p \in {ShiftReceivers(_get_graph_edges(motion_radius, robots, targets, FALSE))},
                c \in {_get_graph_edges(comm_radius, robots, None, FALSE)},
                s \in {_get_graph_edges(sensor_radius, robots, targets, FALSE)}} : TRUE

TimeMatrixUnchanged == UNCHANGED <<time_matrix, prev, changed_last_iter, pc>>

---------------------------------------------------------------------------
(* reset and step *)

\* the offsets reset adds to a robot's position: samples of
\* uniform(-0.5 * motion_radius, 0.5 * motion_radius) in both coordinates
Offsets == {<<0 - ResetJitter, 0>>, <<ResetJitter, ResetJitter>>}

\* np_random.choice(n_targets, size=(n_robots,), replace=False)
Placements(nt) == {f \in [Range(n_robots) -> Range(nt)] : \A i, j \in Range(n_robots) : f[i] = f[j] => i = j}

\* reset(): the caller resets an environment that has not produced an observation
\* yet, and an episode whose last step reported done
Reset ==
    /\ mov_edges = None \/ ret.done
    /\ \E nearest_landmarks \in Placements(n_targets) :
       \E offset \in [Range(n_robots) -> Offsets] :
       \E active \in ChoiceSets(n_targets, NumActive(n_targets)) :
       \E xx \in {[a \in DOMAIN x |->
                     IF a < n_robots
                     THEN <<x[nearest_landmarks[a] + n_robots][1] + offset[a][1],
                            x[nearest_landmarks[a] + n_robots][2] + offset[a][2]>>
                     ELSE x[a]]} :
       \E v \in {[a \in DOMAIN visited |->
                     IF a >= n_robots /\ (a - n_robots) \in active THEN 0 ELSE 1]} :
       \E k_edges \in _get_k_edges(N_ACTIONS, RobotPos(xx), TargetPos(xx, n_targets), FALSE, FALSE) :
       \E out \in {ObsReward(xx, v, 0, mov_edges, n_motion_edges, n_targets, k_edges)} :
           /\ x' = xx
           /\ visited' = out.visited
           /\ mov_edges' = out.mov_edges
           /\ step_counter' = out.step_counter
           /\ cached_solution' = None
           /\ solver_calls' = 0
           /\ initially_active' = active
           /\ ret' = [NoRet EXCEPT !.op = "reset", !.raised = out.raised, !.step = out.step]
           /\ UNCHANGED <<n_targets, motion_edges, n_motion_edges, graph_previous, graph_cost>>
           /\ TimeMatrixUnchanged

\* step(u_ind) before any reset: self.mov_edges does not exist yet
StepBeforeReset ==
    /\ mov_edges = None
    /\ ret.op = "init"
    /\ ret' = [NoRet EXCEPT !.op = "step", !.raised = "AttributeError"]
    /\ UNCHANGED <<n_targets, x, visited, step_counter, motion_edges, n_motion_edges, mov_edges,
                   cached_solution, graph_previous, graph_cost, solver_calls, initially_active>>
    /\ TimeMatrixUnchanged

\* step(u_ind) for an action u_ind of the set U
StepWith(U) ==
    /\ mov_edges # None
    /\ step_counter < MaxStepCounter
    /\ \E u_ind \in U :
       \E recv \in {[i \in Range(n_robots) |-> ActionReceiver(mov_edges, i, u_ind[i])]} :
       \E xx \in {Integrate(x, recv, n_steps)} :
       \E k_edges \in _get_k_edges(N_ACTIONS, RobotPos(xx), TargetPos(xx, n_targets), FALSE, FALSE) :
       \E out \in {ObsReward(xx, visited, step_counter, mov_edges, n_motion_edges,
                              n_targets, k_edges)} :
            /\ x' = xx
            /\ visited' = out.visited
            /\ mov_edges' = out.mov_edges
            /\ step_counter' = out.step_counter
            /\ ret' = [NoRet EXCEPT !.op = "step", !.raised = out.raised,
                                     !.reward = out.reward, !.done = out.done,
                                     !.step = out.step]
            /\ UNCHANGED <<n_targets, motion_edges, n_motion_edges, cached_solution,
                           graph_previous, graph_cost, solver_calls, initially_active>>
            /\ TimeMatrixUnchanged

\* step(u_ind) for any action
Step == StepWith([Range(n_robots) -> Range(N_ACTIONS)])

\* step(self.controller(...)): the caller passes on the action the controller returned
StepControlled ==
    /\ ret.op \in {"controller_greedy", "controller_route"}
    /\ ret.raised = ""
    /\ StepWith({ret.action})

---------------------------------------------------------------------------
(* Routing controller *)

\* vrp_solver.solve_vrp: for every robot an ordered list of distinct target indices
\* (agent indices), possibly empty
Routes(nt) ==
    UNION {{q \in [1 .. len -> {t + n_robots : t \in Range(Min(nt, RouteTargets))}] :
               \A a, b \in 1 .. len : q[a] = q[b] => a = b} : len \in 0 .. MaxRoute}

solve_vrp(nt) == [Range(n_robots) -> Routes(nt)]

\* np.where(self.visited[self.n_robots:] == 1) on the (n_targets, 1) column of flags:
\* the pair (row indices, column indices) of the entries equal to 1
WhereVisited(v, nt) ==
    LET rows == SelectSeq([k \in 1 .. nt |-> k - 1], LAMBDA t : v[t + n_robots] = 1)
    IN  <<rows, [k \in 1 .. Len(rows) |-> 0]>>

\* line 542: r[:, np.where(...)] = np.Inf; the pair of index arrays is one 2 x m index
\* array, and every column it names is set
MaskVisited(r, v, nt) ==
    LET Columns(idx) == SeqRange(idx[1]) \cup SeqRange(idx[2])
        Assign(cols) ==
            [i \in DOMAIN r |-> [j \in DOMAIN r[i] |-> IF j \in cols THEN Inf ELSE r[i][j]]]
    IN  With(With(WhereVisited(v, nt), Columns), Assign)

\* lines 540-543: greedy_loc
GreedyLoc(xx, v, nt) ==
    LET Masked(r0) == MaskVisited(r0, v, nt)
        Nearest(r) == [i \in Range(n_robots) |-> With(r[i], argmin) + n_robots]
    IN  With(With(Norm2(_get_pos_diff(RobotPos(xx), TargetPos(xx, nt))), Masked), Nearest)

\* closest_targets
closest_targets(xx, nt) ==
    LET Nearest(r) == [i \in Range(n_robots) |-> With(r[i], argmin) + n_robots]
    IN  With(Norm2(_get_pos_diff(RobotPos(xx), TargetPos(xx, nt))), Nearest)

\* lines 559-564 for one robot: its route afterwards and its desired target, or the
\* IndexError of reading the head of an empty route
RouteStep(route, curr, greedy) ==
    IF Len(route) = 1 THEN [err |-> FALSE, route |-> route, next |-> greedy]
    ELSE IF Len(route) = 0 THEN [err |-> TRUE, route |-> route, next |-> greedy]
    ELSE LET rest == IF curr = route[1] THEN Tail(route) ELSE route
         IN  [err |-> FALSE, route |-> rest, next |-> rest[1]]

\* lines 571-574: the index of the movement edge whose receiver is closest to the hop
ClosestNeighbor(xx, me, hop) ==
    [i \in Range(n_robots) |->
        argmin([a \in Range(N_ACTIONS) |->
                   LET p == xx[hop[i]]
                       q == xx[ActionReceiver(me, i, a)]
                   IN  (p[1] - q[1]) * (p[1] - q[1]) + (p[2] - q[2]) * (p[2] - q[2])])]

\* a solver called on every cached-route call
NeedsSolverAlways(cs) == TRUE

\* line 553: the solver is called when no plan is stored
NeedsSolver(cs) == cs = None

\* controller(random=True)
ControllerRandom ==
    /\ \E action \in [Range(n_robots) -> Range(N_ACTIONS)] :
          ret' = [NoRet EXCEPT !.op = "controller_random", !.action = action]
    /\ UNCHANGED <<n_targets, x, visited, step_counter, motion_edges, n_motion_edges, mov_edges,
                   cached_solution, graph_previous, graph_cost, solver_calls, initially_active>>
    /\ TimeMatrixUnchanged

\* controller(random=False, greedy), lines 566-576, for the desired targets next_loc
\* (or the IndexError of line 562); `call` is what the lines before recorded
ControllerReturn(call, next_loc, gp, err) ==
    \E hop \in {[i \in Range(n_robots) |-> NextHop(gp, next_loc[i], call.curr_loc[i])]} :
        ret' = IF err
               THEN [call EXCEPT !.raised = "IndexError"]
               ELSE IF mov_edges = None
               THEN [call EXCEPT !.raised = "AttributeError", !.desired = next_loc, !.hop = hop]
               ELSE [call EXCEPT !.desired = next_loc, !.hop = hop,
                                 !.action = ClosestNeighbor(x, mov_edges, hop)]

\* controller(random=False, greedy)
Controller(greedy) ==
    \E greedy_loc \in {GreedyLoc(x, visited, n_targets)} :
    \E curr_loc \in {closest_targets(x, n_targets)} :
    \E tm \in {IF graph_previous = None
                THEN construct_time_matrix(motion_edges, n_targets, 1)
                ELSE [time_matrix |-> graph_cost, prev |-> graph_previous]} :
        /\ graph_cost' = tm.time_matrix
        /\ graph_previous' = tm.prev
        /\ IF greedy
           THEN /\ cached_solution' = cached_solution
                /\ solver_calls' = solver_calls
                /\ ControllerReturn([NoRet EXCEPT !.op = "controller_greedy",
                                                  !.curr_loc = curr_loc,
                                                  !.greedy_loc = greedy_loc],
                                    greedy_loc, tm.prev, FALSE)
           ELSE \E solution \in (IF NeedsSolver(cached_solution)
                                  THEN solve_vrp(n_targets) ELSE {cached_solution}) :
                \E rs \in {[i \in Range(n_robots) |->
                                RouteStep(solution[i], curr_loc[i], greedy_loc[i])]} :
                    LET bad == {i \in Range(n_robots) : rs[i].err}
                    IN  /\ cached_solution' =
                               [i \in Range(n_robots) |->
                                   IF \E b \in bad : b <= i THEN solution[i] ELSE rs[i].route]
                        /\ solver_calls' = IF NeedsSolver(cached_solution)
                                           THEN solver_calls + 1 ELSE solver_calls
                        /\ ControllerReturn([NoRet EXCEPT !.op = "controller_route",
                                                          !.curr_loc = curr_loc,
                                                          !.greedy_loc = greedy_loc,
                                                          !.plan = solution,
                                                          !.solved = NeedsSolver(cached_solution)],
                                            [i \in Range(n_robots) |-> rs[i].next],
                                            tm.prev, bad # {})
        /\ UNCHANGED <<n_targets, x, visited, step_counter, motion_edges, n_motion_edges,
                       mov_edges, initially_active>>
        /\ TimeMatrixUnchanged

ControllerGreedy == Controller(TRUE)

ControllerRoute == Controller(FALSE)

---------------------------------------------------------------------------
(* The environment *)

\* the layout the environment is built on: the two-row strip with its last lattice
\* point inside an obstacle (_get_k_edges needs more than N_ACTIONS targets)
EnvObstacles == {<<LatticeStep * (EnvLatW - 1), LatticeStep>>}

EnvLayouts == {reject_collisions(generate_lattice(EnvLatW, 2, "rows"), EnvObstacles)}

Init ==
    /\ \E targets \in EnvLayouts :
       \E active \in ChoiceSets(Len(targets), NumActive(Len(targets))) :
           Construct(targets, active)
    /\ TimeMatrixIdle

\* episodes under any actions
Next ==
    \/ Reset
    \/ StepBeforeReset
    \/ Step

Spec == Init /\ [][Next]_vars

\* episodes under the controller's actions
NextCtl ==
    \/ Reset
    \/ ControllerRandom
    \/ ControllerGreedy
    \/ ControllerRoute
    \/ StepControlled

SpecCtl == Init /\ [][NextCtl]_vars

---------------------------------------------------------------------------
(* The k-nearest builder on its own *)

\* the target lists of KTargets distinct points around the origin
KPlacements ==
    {q \in [1 .. KTargets -> {<<px, py>> : px \in (0 - KSpan) .. KSpan,
                                            py \in (0 - KSpan) .. KSpan}] :
        \A a, b \in 1 .. KTargets : q[a] = q[b] => a = b}

\* _get_k_edges(k, robots, targets) as _get_obs_reward calls it (lines 188-189), for
\* any k: one of its results, or numpy's ValueError when kth = k is out of bounds
GetKEdges ==
    /\ \E k \in 1 .. MaxK :
       \E results \in {_get_k_edges(k, RobotPos(x), TargetPos(x, n_targets), FALSE, FALSE)} :
          IF results = {}
          THEN ret' = [NoRet EXCEPT !.op = "_get_k_edges", !.k = k, !.raised = "ValueError"]
          ELSE \E edges \in results :
                  ret' = [NoRet EXCEPT !.op = "_get_k_edges", !.k = k, !.edges = edges]
    /\ UNCHANGED <<n_targets, x, visited, step_counter, motion_edges, n_motion_edges, mov_edges,
                   cached_solution, graph_previous, graph_cost, solver_calls, initially_active>>
    /\ TimeMatrixUnchanged

\* robots at the origin, where __init__ leaves them, among targets placed anywhere
InitK ==
    /\ \E targets \in KPlacements : Construct(targets, {})
    /\ TimeMatrixIdle

NextK == GetKEdges

SpecK == InitK /\ [][NextK]_vars

---------------------------------------------------------------------------
(* What the results are compared with: distances, the static motion graph as a graph *)

Targets == Range(n_targets)

\* squared distance of two agents
Dist2(a, b) == (x[a][1] - x[b][1]) * (x[a][1] - x[b][1]) + (x[a][2] - x[b][2]) * (x[a][2] - x[b][2])

\* the motion edges over target indices, as a set
MotionEdgeSet == SeqRange(TargetEdges(motion_edges))

\* the targets reached from i over at most k motion edges
RECURSIVE Ball(_, _)
Ball(i, k) ==
    IF k = 0 THEN {i}
    ELSE LET B == Ball(i, k - 1)
         IN  B \cup {j \in Targets : \E b \in B : <<b, j>> \in MotionEdgeSet}

Reachable(i, j) == j \in Ball(i, n_targets)

\* minimum number of motion edges from i to j (j reachable from i)
ShortestPath(i, j) == CHOOSE k \in 0 .. n_targets : j \in Ball(i, k) /\ \A l \in 0 .. (k - 1) : j \notin Ball(i, l)

\* the agents of the targets, and of the targets not visited yet
TargetAgents == {t + n_robots : t \in Targets}

Unvisited == {a \in TargetAgents : visited[a] = 0}

\* target agent a lies within the sensor radius of some robot
InSensorRange(a) == \E i \in Range(n_robots) : Dist2(i, a) <= sensor_radius * sensor_radius

---------------------------------------------------------------------------
(* Claims *)

\* C1: within an episode a visited flag never goes from 1 back to 0: every call other
\* than reset leaves a flag that is 1 at 1, and step raises a flag only for a target
\* within the sensor radius of a robot's new position
C1_VisitedMonotonic ==
    [][ret'.op # "reset" =>
          \A a \in DOMAIN visited :
              /\ visited[a] = 1 => visited'[a] = 1
              /\ (visited[a] = 0 /\ visited'[a] = 1) =>
                    /\ ret'.op = "step"
                    /\ \E i \in Range(n_robots) :
                          (x'[i][1] - x'[a][1]) * (x'[i][1] - x'[a][1])
                            + (x'[i][2] - x'[a][2]) * (x'[i][2] - x'[a][2])
                              <= sensor_radius * sensor_radius]_vars

\* a step sensed a new target while a target visited earlier in the episode, by now
\* out of sensor range, is still visited
C1_Witness ==
    /\ ret.op = "step"
    /\ ret.reward > 0
    /\ \E t \in initially_active : visited[t + n_robots] = 1 /\ ~InSensorRange(t + n_robots)

\* C2: the reward a step returns is the number of targets whose flag that step changed
\* from 0 to 1; it is never negative
C2_Reward ==
    [][(ret'.op = "step" /\ ret'.raised = "") =>
          /\ ret'.reward = Cardinality({a \in DOMAIN visited : visited[a] = 0 /\ visited'[a] = 1})
          /\ ret'.reward = VisitedSum(visited', n_targets) - VisitedSum(visited, n_targets)
          /\ ret'.reward >= 0]_vars

\* a step returned reward 0 with targets still unvisited, none of them in sensor range
C2_Witness ==
    /\ ret.op = "step"
    /\ ret.raised = ""
    /\ ret.reward = 0
    /\ Unvisited # {}
    /\ \A a \in Unvisited : ~InSensorRange(a)

\* C3: a step returns done exactly when, after its sensing and its increment, the step
\* counter equals the episode length or every target active at the start of the episode
\* is visited
C3_Done ==
    (ret.op = "step" /\ ret.raised = "") =>
        (ret.done <=>
            \/ step_counter = episode_length
            \/ \A t \in initially_active : visited[t + n_robots] = 1)

\* a step sensed the last active target before or after the step budget ran out: it
\* returned done together with its reward
C3_Witness ==
    /\ ret.op = "step"
    /\ ret.done
    /\ ret.reward > 0
    /\ step_counter # episode_length

\* C4 (as claimed): the returned time matrix holds the shortest path length of every
\* reachable pair, whatever the order of the edges
C4_ShortestPaths ==
    pc = "done" =>
        \A i \in Targets : \A j \in Targets :
            Reachable(i, j) => time_matrix[i][j] = ShortestPath(i, j)

\* C5: construct_time_matrix returns on every layout; when it does, pairs without a
\* connecting path are still infinite, and on a disconnected graph the last pass
\* changed nothing
C5_Terminates ==
    /\ <>(pc = "done")
    /\ [](pc = "done" =>
            /\ \A i \in Targets : \A j \in Targets :
                  ~Reachable(i, j) => time_matrix[i][j] = Inf
            /\ ((\E i \in Targets : \E j \in Targets : ~Reachable(i, j))
                    => changed_last_iter = FALSE))

\* a disconnected layout whose matrix took more than one pass has been returned
C5_Witness ==
    /\ pc = "done"
    /\ \E i \in Targets : \E j \in Targets : ~Reachable(i, j)
    /\ \E i \in Targets : \E j \in Targets : Reachable(i, j) /\ ShortestPath(i, j) >= 3

\* repeating the projection from c reaches d in at most k hops
RECURSIVE ProjectionReaches(_, _, _)
ProjectionReaches(d, c, k) ==
    \/ c = d
    \/ /\ k > 0
       /\ ProjectionReaches(d, NextHop(prev, d + n_robots, c + n_robots) - n_robots, k - 1)

\* C6: for a robot at target c with desired target d, the hop the controller reads from
\* the predecessor matrix is c itself when c = d; when d is another target connected
\* to c, the hop is joined to c by a motion edge, is strictly closer to d than c in the
\* time matrix (row d, the row the controller reads), and repeating the projection
\* reaches d
C6_NextHop ==
    pc = "done" =>
        \A c \in Targets : \A d \in Targets :
            LET h == NextHop(prev, d + n_robots, c + n_robots) - n_robots
            IN  /\ (c = d => h = c)
                /\ (c # d /\ Reachable(c, d)) =>
                      /\ <<h, c>> \in MotionEdgeSet
                      /\ <<c, h>> \in MotionEdgeSet
                      /\ time_matrix[d][h] < time_matrix[d][c]
                      /\ ProjectionReaches(d, c, n_targets)

\* a returned matrix with a desired target three edges away from the robot's target
C6_Witness ==
    /\ pc = "done"
    /\ \E c \in Targets : \E d \in Targets :
          /\ Reachable(c, d) /\ ShortestPath(c, d) >= 3
          /\ NextHop(prev, d + n_robots, c + n_robots) - n_robots \notin {c, d}

\* C7 (as claimed): the greedy target of every robot is a nearest target among those
\* whose visited flag is 0, whenever such a target exists
C7_GreedyNearestUnvisited ==
    ret.op \in {"controller_greedy", "controller_route"} =>
        \A i \in Range(n_robots) :
            Unvisited # {} =>
                /\ ret.greedy_loc[i] \in Unvisited
                /\ \A u \in Unvisited : Dist2(i, ret.greedy_loc[i]) <= Dist2(i, u)

\* C8 (as claimed): in cached-route mode a plan of one or zero waypoints makes the greedy
\* target the desired target without the error of reading an empty plan; a longer plan
\* loses its head exactly when the robot's current location equals it, and its head
\* afterwards is the desired target
C8_RouteFallback ==
    ret.op = "controller_route" =>
        \A i \in Range(n_robots) :
            LET plan == ret.plan[i]
            IN  /\ Len(plan) <= 1 =>
                      /\ ret.raised # "IndexError"
                      /\ ret.desired[i] = ret.greedy_loc[i]
                      /\ cached_solution[i] = plan
                /\ Len(plan) > 1 =>
                      /\ ret.raised # "IndexError"
                      /\ cached_solution[i] = IF ret.curr_loc[i] = plan[1] THEN Tail(plan) ELSE plan
                      /\ ret.desired[i] = cached_solution[i][1]

\* C9: between two resets the route solver is called at most once, by the first
\* cached-route call only; later calls reuse the stored plan; random and greedy calls
\* and step leave plan and count alone; reset discards the plan, so that the next
\* cached-route call calls the solver again
C9_SolverOnce ==
    /\ [](solver_calls <= 1)
    /\ [](solver_calls = 0 <=> cached_solution = None)
    /\ [][/\ (ret'.op \in {"controller_random", "controller_greedy", "step"} =>
                (solver_calls' = solver_calls /\ cached_solution' = cached_solution))
          /\ (ret'.op = "controller_route" =>
                /\ solver_calls' = (IF cached_solution = None THEN 1 ELSE solver_calls)
                /\ ret'.solved = (cached_solution = None)
                /\ ret'.plan = (IF cached_solution = None THEN ret'.plan ELSE cached_solution))
          /\ (ret'.op = "reset" => (solver_calls' = 0 /\ cached_solution' = None))]_vars

\* a cached-route call, after a step of the episode, reused the plan an earlier call of
\* the episode had stored
C9_Witness ==
    /\ ret.op = "controller_route"
    /\ ~ret.solved
    /\ solver_calls = 1
    /\ step_counter > 1

\* C10 (as claimed): the radius graph holds the edge (i, j) exactly when the distance
\* is within the radius, distance 0 included, so the motion graph, built with
\* self-loops enabled, holds (t, t) for every target t
C10_RadiusGraph ==
    LET E == SeqRange(_get_graph_edges(motion_radius, TargetPos(x, n_targets), None, TRUE))
    IN  \A i \in Targets : \A j \in Targets :
            (<<i, j>> \in E) <=>
                (Dist2(i + n_robots, j + n_robots) <= motion_radius * motion_radius)

\* C11 (as claimed): with at least k + 1 targets the k-nearest builder, allow_nearest
\* false, returns for every robot exactly k edges, none of them to the robot's nearest
\* target, equal distances or not
C11_KEdges ==
    (ret.op = "_get_k_edges" /\ n_targets >= ret.k + 1) =>
        /\ ret.raised = ""
        /\ \A i \in Range(n_robots) :
              /\ Cardinality({e \in 1 .. Len(ret.edges) : ret.edges[e][1] = i}) = ret.k
              /\ \A e \in 1 .. Len(ret.edges) :
                    ret.edges[e][1] = i =>
                        ret.edges[e][2] + n_robots # closest_targets(x, n_targets)[i]

\* C12 (as claimed): a reset that follows an earlier episode invalidates the cached
\* time/predecessor matrix, so that the first non-random controller call of the new
\* episode recomputes it
C12_CacheInvalidated ==
    [][(mov_edges # None /\ ret'.op = "reset") =>
           (graph_previous' = None /\ graph_cost' = None)]_vars

\* C13 (as claimed): in the predecessor matrix construct_time_matrix returns, the
\* diagonal entry of every target is the target itself, and the entry (i, j) of two
\* targets without a connecting path is a self-index (i, or j, the target the routing
\* query stands on), never an unrelated target
C13_PrevOfUnreachable ==
    pc = "done" =>
        \A i \in Targets : \A j \in Targets :
            /\ (i = j => prev[i][j] = i)
            /\ ((i # j /\ ~Reachable(i, j)) => prev[i][j] \in {i, j})

\* C14: reset leaves the step counter at 1 and returns an observation with step 0; a
\* step call returns the step of the call before it plus one, so the k-th step call
\* after reset carries step k and leaves the counter at k + 1; while a target stays
\* unvisited, a step call returns done exactly when it is call number
\* episode_length - 1, and the calls after it return done = false again
C14_StepNumbering ==
    [][/\ (ret'.op = "reset" /\ ret'.raised = "") =>
              (ret'.step = 0 /\ step_counter' = 1)
       /\ (ret'.op = "step" /\ ret'.raised = "") =>
              /\ ret.op \in {"reset", "step"}
              /\ ret'.step = ret.step + 1
              /\ step_counter' = ret'.step + 1
              /\ ((\E a \in TargetAgents : visited'[a] = 0) =>
                     (ret'.done <=> (ret'.step = episode_length - 1)))]_vars

\* with a target still unvisited, step call number episode_length, the one after the
\* call that returned done, has returned done = false
C14_Witness ==
    /\ ret.op = "step"
    /\ ret.raised = ""
    /\ ret.step = episode_length
    /\ ~ret.done
    /\ Unvisited # {}

=============================================================================
